---- MODULE Spec2Model ----
(***************************************************************************)
(* A model of coverage.py: the command-line run (the __main__ block) and   *)
(* calculate_population_coverage.                                          *)
(*                                                                         *)
(* Strings are sequences of one-character strings, so that str.replace and *)
(* str.strip are computed on characters.  Python floats are modelled as    *)
(* exact rationals <<numerator, denominator>> in lowest terms: sums,       *)
(* squares and products are the real-number ones, and the rounding of      *)
(* IEEE-754 doubles (a last-digit effect) is not modelled.                 *)
(***************************************************************************)
EXTENDS Integers, Sequences, FiniteSets

VARIABLES
    argc,                \* len(sys.argv)
    txt_file,            \* the allele-list file at sys.argv[1]
    csv_file,            \* the file at csv_file_path
    pc,                  \* position in the __main__ block
    alleles_to_analyze,  \* the list read from the allele-list file
    calls,               \* invocations of calculate_population_coverage
    allele_data,         \* the lookup dictionary of the last invocation
    locus_frequencies,   \* its per-locus sums, in insertion order
    locus_coverages,     \* its per-locus coverages, in insertion order
    total_coverage,      \* its return value
    stdout,              \* lines printed to sys.stdout
    stderr,              \* lines printed to sys.stderr
    exit_code            \* the status the process ends with (0 unless sys.exit(1))

vars == <<argc, txt_file, csv_file, pc, alleles_to_analyze, calls, allele_data,
          locus_frequencies, locus_coverages, total_coverage, stdout, stderr,
          exit_code>>

(***************************************************************************)
(* Bounds of the model.                                                    *)
(***************************************************************************)
MaxRows == 3
MaxLines == 3

(***************************************************************************)
(* Exact rational arithmetic for the float computations.                   *)
(***************************************************************************)
RECURSIVE GCD(_, _)
GCD(a, b) == IF b = 0 THEN a ELSE GCD(b, a % b)

Abs(n) == IF n < 0 THEN -n ELSE n

Rat(n, d) == LET g == GCD(Abs(n), d) IN <<n \div g, d \div g>>

Zero == Rat(0, 1)
One == Rat(1, 1)

RAdd(a, b) == Rat(a[1] * b[2] + b[1] * a[2], a[2] * b[2])
RSub(a, b) == Rat(a[1] * b[2] - b[1] * a[2], a[2] * b[2])
RMul(a, b) == Rat(a[1] * b[1], a[2] * b[2])
RLe(a, b) == LET g == GCD(a[2], b[2]) IN a[1] * (b[2] \div g) <= b[1] * (a[2] \div g)

(***************************************************************************)
(* Strings.                                                                *)
(***************************************************************************)
Whitespace == {" ", "\t", "\n"}

HLA == <<"H", "L", "A", "-">>

StartsWith(s, prefix) ==
    /\ Len(s) >= Len(prefix)
    /\ SubSeq(s, 1, Len(prefix)) = prefix

\* str.strip(): leading and trailing whitespace removed.
RECURSIVE lstrip(_)
lstrip(s) == IF s # <<>> /\ Head(s) \in Whitespace THEN lstrip(Tail(s)) ELSE s

RECURSIVE rstrip(_)
rstrip(s) ==
    IF s # <<>> /\ s[Len(s)] \in Whitespace THEN rstrip(SubSeq(s, 1, Len(s) - 1)) ELSE s

strip(s) == rstrip(lstrip(s))

\* Series.str.replace('HLA-', ''): every occurrence, scanning left to right.
RECURSIVE str_replace(_)
str_replace(s) ==
    IF s = <<>> THEN <<>>
    ELSE IF StartsWith(s, HLA) THEN str_replace(SubSeq(s, Len(HLA) + 1, Len(s)))
    ELSE <<Head(s)>> \o str_replace(Tail(s))

(***************************************************************************)
(* calculate_population_coverage.                                          *)
(***************************************************************************)
\* The key a table row is stored under.
RowKey(row) == strip(str_replace(row.Allele))

RowValue(row) == [Locus |-> strip(row.Locus), Frequency |-> row.Frequency]

\* A faulty variant: the first row stored under a key is kept.
DictPutIfAbsent(d, key, value) ==
    [k \in DOMAIN d \cup {key} |-> IF k \in DOMAIN d THEN d[k] ELSE value]

\* The dictionary after a further row: a later row replaces an earlier one.
DictPut(d, key, value) ==
    [k \in DOMAIN d \cup {key} |-> IF k = key THEN value ELSE d[k]]

EmptyDict == [k \in {} |-> Zero]

\* The dict comprehension over df.iterrows().
RECURSIVE BuildAlleleData(_)
BuildAlleleData(rows) ==
    IF rows = <<>> THEN EmptyDict
    ELSE LET n == Len(rows)
         IN DictPut(BuildAlleleData(SubSeq(rows, 1, n - 1)), RowKey(rows[n]),
                    RowValue(rows[n]))

\* A faulty variant: locus_frequencies[locus] = frequency.
AccumulateAssign(lf, locus, frequency) ==
    IF \E i \in DOMAIN lf : lf[i].locus = locus
    THEN [i \in DOMAIN lf |->
            IF lf[i].locus = locus THEN [locus |-> locus, p |-> frequency] ELSE lf[i]]
    ELSE Append(lf, [locus |-> locus, p |-> frequency])

\* locus_frequencies[locus] += frequency on a defaultdict(float): a new locus
\* is appended with 0.0 + frequency, a known one keeps its place.
Accumulate(lf, locus, frequency) ==
    IF \E i \in DOMAIN lf : lf[i].locus = locus
    THEN [i \in DOMAIN lf |->
            IF lf[i].locus = locus
            THEN [locus |-> locus, p |-> RAdd(lf[i].p, frequency)]
            ELSE lf[i]]
    ELSE Append(lf, [locus |-> locus, p |-> RAdd(Zero, frequency)])

Found(allele, data) == strip(allele) \in DOMAIN data

\* One iteration of the loop over allele_list.
LoopStep(lf, allele, data) ==
    IF Found(allele, data)
    THEN Accumulate(lf, data[strip(allele)].Locus, data[strip(allele)].Frequency)
    ELSE lf

\* A faulty variant: the loop ends at the first allele that is not found.
RECURSIVE SumByLocusUntilUnknown(_, _)
SumByLocusUntilUnknown(allele_list, data) ==
    IF allele_list = <<>> THEN <<>>
    ELSE LET n == Len(allele_list)
             front == SubSeq(allele_list, 1, n - 1)
         IN IF \E i \in 1..n : ~Found(allele_list[i], data)
            THEN SumByLocusUntilUnknown(front, data)
            ELSE LoopStep(SumByLocusUntilUnknown(front, data), allele_list[n], data)

RECURSIVE SumByLocus(_, _)
SumByLocus(allele_list, data) ==
    IF allele_list = <<>> THEN <<>>
    ELSE LET n == Len(allele_list)
         IN LoopStep(SumByLocus(SubSeq(allele_list, 1, n - 1), data),
                     allele_list[n], data)

Warning(allele) == [msg |-> "allele_not_found", allele |-> strip(allele)]

ErrorLine(m) == [msg |-> m, allele |-> <<>>]

\* The warnings of the loop, in order.
RECURSIVE Warnings(_, _)
Warnings(allele_list, data) ==
    IF allele_list = <<>> THEN <<>>
    ELSE (IF Found(Head(allele_list), data) THEN <<>>
          ELSE <<Warning(Head(allele_list))>>)
         \o Warnings(Tail(allele_list), data)

\* A faulty variant: coverage = 1 - (1 - p)*2.
CoverageTimesTwo(p) == RSub(One, RMul(RSub(One, p), Rat(2, 1)))

\* A faulty variant: coverage = (1 - p)**2.
CoverageComplement(p) == RMul(RSub(One, p), RSub(One, p))

\* coverage = 1 - (1 - p)**2
Coverage(p) == RSub(One, RMul(RSub(One, p), RSub(One, p)))

LocusCoverages(lf) ==
    [i \in DOMAIN lf |-> [locus |-> lf[i].locus, coverage |-> Coverage(lf[i].p)]]

\* A faulty variant: non_covered_fraction *= coverage.
RECURSIVE NonCoveredTimesCoverage(_)
NonCoveredTimesCoverage(lc) ==
    IF lc = <<>> THEN One
    ELSE LET n == Len(lc)
         IN RMul(NonCoveredTimesCoverage(SubSeq(lc, 1, n - 1)), lc[n].coverage)

\* non_covered_fraction after the loop over locus_coverages.values().
RECURSIVE NonCovered(_)
NonCovered(lc) ==
    IF lc = <<>> THEN One
    ELSE LET n == Len(lc)
         IN RMul(NonCovered(SubSeq(lc, 1, n - 1)), RSub(One, lc[n].coverage))

\* A faulty variant: non_covered_fraction is returned.
TotalCoverageNotCovered(lf) == NonCovered(LocusCoverages(lf))

\* total_coverage = 1 - non_covered_fraction
TotalCoverage(lf) == RSub(One, NonCovered(LocusCoverages(lf)))

LocusLines(lf) ==
    [i \in DOMAIN lf |->
        [kind |-> "locus", locus |-> lf[i].locus, p |-> lf[i].p,
         value |-> RMul(Coverage(lf[i].p), Rat(100, 1))]]

TotalLine(total) ==
    [kind |-> "total", locus |-> <<>>, p |-> Zero, value |-> RMul(total, Rat(100, 1))]

\* The whole function: what it returns, leaves in its locals, and prints.
calculate_population_coverage(allele_list, file) ==
    IF ~file.exists
    THEN [total |-> Zero, data |-> EmptyDict, lf |-> <<>>, lc |-> <<>>,
          out |-> <<>>, err |-> <<ErrorLine("csv_not_found")>>]
    ELSE IF ~file.parseable
    THEN [total |-> Zero, data |-> EmptyDict, lf |-> <<>>, lc |-> <<>>,
          out |-> <<>>, err |-> <<ErrorLine("csv_read_error")>>]
    ELSE LET data == BuildAlleleData(file.rows)
             lf == SumByLocus(allele_list, data)
         IN [total |-> TotalCoverage(lf), data |-> data, lf |-> lf,
             lc |-> LocusCoverages(lf), out |-> LocusLines(lf),
             err |-> Warnings(allele_list, data)]

(***************************************************************************)
(* The inputs of a run: the command line and the two files.                *)
(***************************************************************************)
A0302 == <<"A", "*", "0", "3", ":", "0", "2">>
A6801 == <<"A", "*", "6", "8", ":", "0", "1">>
B0702 == <<"B", "*", "0", "7", ":", "0", "2">>
Z9999 == <<"Z", "*", "9", "9", ":", "9", "9">>
a0302 == <<"a", "*", "0", "3", ":", "0", "2">>
AHLA6801 == <<"A", "*", "H", "L", "A", "-", "6", "8", ":", "0", "1">>

Row(allele, locus, frequency) ==
    [Allele |-> allele, Locus |-> locus, Frequency |-> frequency]

\* Rows a frequency table may hold: plain, prefixed and padded identifiers, a
\* padded locus, and an identifier with HLA- inside it.
CandidateRows ==
    { Row(A0302, <<"A">>, Rat(1, 10)),
      Row(A6801, <<"A">>, Rat(2, 25)),
      Row(B0702, <<"B">>, Rat(3, 25)),
      Row(<<" ">> \o HLA \o A0302 \o <<" ">>, <<" ", "A">>, Rat(9, 10)),
      Row(AHLA6801, <<"C">>, Rat(1, 2)) }

\* The table of the documented scenario.
ExampleTable ==
    << Row(A0302, <<"A">>, Rat(1, 10)),
       Row(A6801, <<"A">>, Rat(2, 25)),
       Row(B0702, <<"B">>, Rat(3, 25)) >>

\* Lines an allele-list file may hold.
CandidateLines ==
    { A0302 \o <<"\n">>,
      <<" ">> \o A6801 \o <<"\t", "\n">>,
      B0702,
      Z9999 \o <<"\n">>,
      AHLA6801 \o <<"\n">>,
      <<" ", "\n">> }

\* A table with a prefixed and padded duplicate of A*03:02, a row whose
\* identifier holds HLA- inside it, and a third locus.
MixedTable ==
    << Row(A0302, <<"A">>, Rat(1, 10)),
       Row(<<" ">> \o HLA \o A0302 \o <<" ">>, <<" ", "A">>, Rat(9, 10)),
       Row(AHLA6801, <<"C">>, Rat(1, 2)),
       Row(B0702, <<"B">>, Rat(3, 25)) >>

\* The query of the documented scenario, as the lines of a file.
ExampleLines == << A0302 \o <<"\n">>, <<" ">> \o A6801 \o <<"\t", "\n">>, B0702 >>

RepeatLines == << A0302 \o <<"\n">>, Z9999 \o <<"\n">>, A0302 \o <<"\n">> >>

BlankLines == << AHLA6801 \o <<"\n">>, <<" ", "\n">>, A6801 \o <<"\n">> >>

SeqsUpTo(S, n) == UNION { [1..k -> S] : k \in 0..n }

Tables == SeqsUpTo(CandidateRows, MaxRows)

FixedTables == {<<>>, ExampleTable, MixedTable}

LineLists == SeqsUpTo(CandidateLines, MaxLines)

FixedLineLists == {ExampleLines, RepeatLines, BlankLines}

TextFile(lines) == [exists |-> TRUE, readable |-> TRUE, lines |-> lines]
UnreadableText == [exists |-> TRUE, readable |-> FALSE, lines |-> <<>>]
MissingText == [exists |-> FALSE, readable |-> FALSE, lines |-> <<>>]

CsvFile(rows) == [exists |-> TRUE, parseable |-> TRUE, rows |-> rows]
UnparseableCsv == [exists |-> TRUE, parseable |-> FALSE, rows |-> <<>>]
MissingCsv == [exists |-> FALSE, parseable |-> FALSE, rows |-> <<>>]

Init ==
    /\ pc = "start"
    /\ alleles_to_analyze = <<>>
    /\ calls = 0
    /\ allele_data = EmptyDict
    /\ locus_frequencies = <<>>
    /\ locus_coverages = <<>>
    /\ total_coverage = Zero
    /\ stdout = <<>>
    /\ stderr = <<>>
    /\ exit_code = 0
    /\ \/ /\ argc = 2
          /\ txt_file \in {TextFile(l) : l \in FixedLineLists}
          /\ csv_file \in {CsvFile(t) : t \in Tables}
       \/ /\ argc = 2
          /\ txt_file \in {TextFile(l) : l \in LineLists}
          /\ csv_file \in {CsvFile(t) : t \in FixedTables} \cup {MissingCsv, UnparseableCsv}
       \/ /\ argc = 2
          /\ txt_file \in {MissingText, UnreadableText}
          /\ csv_file \in {MissingCsv, UnparseableCsv, CsvFile(ExampleTable)}
       \/ /\ argc \in {1, 3}
          /\ txt_file \in {MissingText, TextFile(<<A0302>>)}
          /\ csv_file \in {MissingCsv, CsvFile(ExampleTable)}

(***************************************************************************)
(* The __main__ block.                                                     *)
(***************************************************************************)
\* A faulty variant: [line.strip() for line in f].
ReadLinesKeepBlank(lines) == [i \in DOMAIN lines |-> strip(lines[i])]

\* [line.strip() for line in f if line.strip()]
RECURSIVE ReadLines(_)
ReadLines(lines) ==
    IF lines = <<>> THEN <<>>
    ELSE (IF strip(Head(lines)) # <<>> THEN <<strip(Head(lines))>> ELSE <<>>)
         \o ReadLines(Tail(lines))

Exit(code, message) ==
    /\ exit_code' = code
    /\ pc' = "exit"
    /\ stderr' = Append(stderr, ErrorLine(message))

\* len(sys.argv) != 2
UsageError ==
    /\ pc = "start"
    /\ argc # 2
    /\ Exit(1, "usage")
    /\ UNCHANGED <<argc, txt_file, csv_file, alleles_to_analyze, calls, allele_data,
                   locus_frequencies, locus_coverages, total_coverage, stdout>>

\* not os.path.exists(txt_file_path)
AlleleFileNotFound ==
    /\ pc = "start"
    /\ argc = 2
    /\ ~txt_file.exists
    /\ Exit(1, "allele_file_not_found")
    /\ UNCHANGED <<argc, txt_file, csv_file, alleles_to_analyze, calls, allele_data,
                   locus_frequencies, locus_coverages, total_coverage, stdout>>

\* open() or the iteration raises
AlleleFileReadError ==
    /\ pc = "start"
    /\ argc = 2
    /\ txt_file.exists
    /\ ~txt_file.readable
    /\ Exit(1, "allele_file_read_error")
    /\ UNCHANGED <<argc, txt_file, csv_file, alleles_to_analyze, calls, allele_data,
                   locus_frequencies, locus_coverages, total_coverage, stdout>>

ReadAlleles ==
    /\ pc = "start"
    /\ argc = 2
    /\ txt_file.exists
    /\ txt_file.readable
    /\ alleles_to_analyze' = ReadLines(txt_file.lines)
    /\ pc' = "read"
    /\ UNCHANGED <<argc, txt_file, csv_file, calls, allele_data, locus_frequencies,
                   locus_coverages, total_coverage, stdout, stderr, exit_code>>

\* not alleles_to_analyze
EmptyAlleleList ==
    /\ pc = "read"
    /\ alleles_to_analyze = <<>>
    /\ Exit(1, "allele_file_empty")
    /\ UNCHANGED <<argc, txt_file, csv_file, alleles_to_analyze, calls, allele_data,
                   locus_frequencies, locus_coverages, total_coverage, stdout>>

Calculate ==
    /\ pc = "read"
    /\ alleles_to_analyze # <<>>
    /\ LET r == calculate_population_coverage(alleles_to_analyze, csv_file)
       IN /\ total_coverage' = r.total
          /\ allele_data' = r.data
          /\ locus_frequencies' = r.lf
          /\ locus_coverages' = r.lc
          /\ stdout' = stdout \o r.out
          /\ stderr' = stderr \o r.err
    /\ calls' = calls + 1
    /\ pc' = "called"
    /\ UNCHANGED <<argc, txt_file, csv_file, alleles_to_analyze, exit_code>>

\* the final print; the script then ends with status 0
PrintTotal ==
    /\ pc = "called"
    /\ stdout' = Append(stdout, TotalLine(total_coverage))
    /\ exit_code' = 0
    /\ pc' = "exit"
    /\ UNCHANGED <<argc, txt_file, csv_file, alleles_to_analyze, calls, allele_data,
                   locus_frequencies, locus_coverages, total_coverage, stderr>>

Next ==
    \/ UsageError
    \/ AlleleFileNotFound
    \/ AlleleFileReadError
    \/ ReadAlleles
    \/ EmptyAlleleList
    \/ Calculate
    \/ PrintTotal

Spec == Init /\ [][Next]_vars

(***************************************************************************)
(* Vocabulary of the properties.                                           *)
(***************************************************************************)
\* calculate_population_coverage was invoked and read its table.
TableLoaded == csv_file.exists /\ csv_file.parseable

Calculated == calls = 1 /\ TableLoaded

Positions == 1..Len(alleles_to_analyze)

Matched == {i \in Positions : alleles_to_analyze[i] \in DOMAIN allele_data}

RecordAt(i) == allele_data[alleles_to_analyze[i]]

MatchedLoci == {RecordAt(i).Locus : i \in Matched}

RECURSIVE SumFrequencies(_)
SumFrequencies(S) ==
    IF S = {} THEN Zero
    ELSE LET i == CHOOSE x \in S : TRUE
         IN RAdd(RecordAt(i).Frequency, SumFrequencies(S \ {i}))

\* p_L: one term per query position whose record has locus L.
SummedFrequency(L) == SumFrequencies({i \in Matched : RecordAt(i).Locus = L})

\* c_L = 1 - (1 - p_L)^2
LocusCoverage(L) ==
    LET q == RSub(One, SummedFrequency(L)) IN RSub(One, RMul(q, q))

RECURSIVE NotCoveredProduct(_)
NotCoveredProduct(S) ==
    IF S = {} THEN One
    ELSE LET L == CHOOSE x \in S : TRUE
         IN RMul(RSub(One, LocusCoverage(L)), NotCoveredProduct(S \ {L}))

Entries(seq) == {seq[i] : i \in DOMAIN seq}

InUnit(x) == RLe(Zero, x) /\ RLe(x, One)

Permutations(q) ==
    LET n == Len(q)
    IN {[i \in 1..n |-> q[f[i]]] :
          f \in {g \in [1..n -> 1..n] : \A a, b \in 1..n : g[a] = g[b] => a = b}}

Insert(q, k, u) == SubSeq(q, 1, k) \o <<u>> \o SubSeq(q, k + 1, Len(q))

(***************************************************************************)
(* C1: the returned total is 1 minus the product over the matched loci L   *)
(* of 1 - c_L, with c_L = 1 - (1 - p_L)^2 and p_L the sum, once per query  *)
(* position, of the matched records' frequencies of locus L; the           *)
(* documented scenario gives p_A = 0.18, c_A = 0.3276, p_B = 0.12,         *)
(* c_B = 0.2256 and total 1 - 0.6724 * 0.7744.                             *)
(***************************************************************************)
ExampleQuery == <<A0302, A6801, B0702>>

C1_TotalIsProductFormula ==
    Calculated =>
        /\ {e.locus : e \in Entries(locus_frequencies)} = MatchedLoci
        /\ \A e \in Entries(locus_frequencies) : e.p = SummedFrequency(e.locus)
        /\ \A e \in Entries(locus_coverages) : e.coverage = LocusCoverage(e.locus)
        /\ total_coverage = RSub(One, NotCoveredProduct(MatchedLoci))
        /\ (csv_file.rows = ExampleTable /\ alleles_to_analyze = ExampleQuery) =>
              /\ locus_frequencies = << [locus |-> <<"A">>, p |-> Rat(18, 100)],
                                        [locus |-> <<"B">>, p |-> Rat(12, 100)] >>
              /\ locus_coverages = << [locus |-> <<"A">>, coverage |-> Rat(3276, 10000)],
                                      [locus |-> <<"B">>, coverage |-> Rat(2256, 10000)] >>
              /\ total_coverage = RSub(One, RMul(Rat(6724, 10000), Rat(7744, 10000)))

C1_Witness ==
    /\ pc = "exit"
    /\ Calculated
    /\ csv_file.rows = ExampleTable
    /\ alleles_to_analyze = ExampleQuery
    /\ Len(locus_frequencies) = 2

(***************************************************************************)
(* C2: when the frequency-table file is missing or cannot be parsed, the   *)
(* run reports the error on stderr, ends with exit status 1, and computes  *)
(* and prints no total coverage.                                           *)
(***************************************************************************)
C2_TableFailureExitsNonZero ==
    (pc = "exit" /\ argc = 2 /\ ~TableLoaded) =>
        /\ exit_code = 1
        /\ stderr # <<>>
        /\ \A i \in DOMAIN stdout : stdout[i].kind # "total"

(***************************************************************************)
(* C3: for a table whose frequencies are all in [0,1] and a non-empty      *)
(* query, the returned total lies in [0,1].                                *)
(***************************************************************************)
FrequenciesInUnit == \A i \in DOMAIN csv_file.rows : InUnit(csv_file.rows[i].Frequency)

C3_TotalInUnitInterval ==
    (Calculated /\ FrequenciesInUnit /\ alleles_to_analyze # <<>>) =>
        InUnit(total_coverage)

\* C3 as amended: the same, provided that every per-locus summed frequency
\* is at most 2 (as it is whenever the sums are themselves in [0,1]).
C3_TotalInUnitIntervalWhenSumsAtMostTwo ==
    (/\ Calculated
     /\ FrequenciesInUnit
     /\ alleles_to_analyze # <<>>
     /\ \A e \in Entries(locus_frequencies) : RLe(e.p, Rat(2, 1))) =>
        InUnit(total_coverage)

C3_Witness ==
    /\ Calculated
    /\ FrequenciesInUnit
    /\ Len(locus_frequencies) >= 2
    /\ \A e \in Entries(locus_frequencies) : RLe(e.p, Rat(2, 1))
    /\ \E e \in Entries(locus_frequencies) : ~RLe(e.p, One)

(***************************************************************************)
(* C4: inserting at any position an identifier that is absent from the     *)
(* normalized table leaves the per-locus sums and the returned total       *)
(* unchanged; every unknown occurrence gives exactly one 'not found'       *)
(* warning, and never an error or an early end.                            *)
(***************************************************************************)
UnknownIdentifiers ==
    {u \in {Z9999, a0302, HLA \o A0302} :
        strip(u) \notin DOMAIN allele_data}

C4_UnknownAlleleTolerance ==
    Calculated =>
        /\ \A u \in UnknownIdentifiers : \A k \in 0..Len(alleles_to_analyze) :
              LET r == calculate_population_coverage(
                           Insert(alleles_to_analyze, k, u), csv_file)
              IN /\ r.lf = locus_frequencies
                 /\ r.lc = locus_coverages
                 /\ r.total = total_coverage
                 /\ Len(r.err) = Len(stderr) + 1
                 /\ Cardinality({i \in DOMAIN r.err : r.err[i] = Warning(u)})
                      = Cardinality({i \in DOMAIN stderr : stderr[i] = Warning(u)}) + 1
        /\ Len(stderr) = Cardinality(Positions \ Matched)
        /\ \A i \in DOMAIN stderr : stderr[i].msg = "allele_not_found"
        /\ \A i \in Positions \ Matched :
              Cardinality({j \in DOMAIN stderr : stderr[j] = Warning(alleles_to_analyze[i])})
                = Cardinality({j \in Positions : alleles_to_analyze[j] = alleles_to_analyze[i]})
        /\ pc = "exit" => exit_code = 0 /\ stdout[Len(stdout)] = TotalLine(total_coverage)

C4_Witness ==
    /\ pc = "exit"
    /\ Calculated
    /\ Matched # {}
    /\ Positions \ Matched # {}
    /\ alleles_to_analyze[1] \notin DOMAIN allele_data
    /\ UnknownIdentifiers # {}

NoMatch ==
    \A i \in Positions :
        alleles_to_analyze[i] \notin {RowKey(csv_file.rows[j]) : j \in DOMAIN csv_file.rows}

C6_EmptyMatchGivesZero ==
    (Calculated /\ NoMatch) =>
        /\ locus_frequencies = <<>>
        /\ locus_coverages = <<>>
        /\ total_coverage = Zero

C6_Witness ==
    /\ pc = "exit"
    /\ Calculated
    /\ NoMatch
    /\ csv_file.rows # <<>>
    /\ Len(alleles_to_analyze) >= 2

(***************************************************************************)
(* C7: with every per-locus summed frequency in [0,1], raising the summed  *)
(* frequency of one locus to a larger value in [0,1], the others fixed,    *)
(* never lowers the total.                                                 *)
(***************************************************************************)
Grid == {Rat(0, 1), Rat(1, 4), Rat(1, 2), Rat(9, 10), Rat(1, 1)}

WithFrequency(lf, i, p) == [lf EXCEPT ![i] = [locus |-> lf[i].locus, p |-> p]]

SumsInUnit == \A e \in Entries(locus_frequencies) : InUnit(e.p)

C7_Monotonicity ==
    (Calculated /\ SumsInUnit) =>
        \A i \in DOMAIN locus_frequencies : \A p1, p2 \in Grid \cup {locus_frequencies[i].p} :
            RLe(p1, p2) =>
                RLe(TotalCoverage(WithFrequency(locus_frequencies, i, p1)),
                    TotalCoverage(WithFrequency(locus_frequencies, i, p2)))

C7_Witness ==
    /\ Calculated
    /\ SumsInUnit
    /\ Len(locus_frequencies) >= 2
    /\ \E i \in DOMAIN locus_frequencies : \E p2 \in Grid :
          /\ RLe(locus_frequencies[i].p, p2)
          /\ TotalCoverage(WithFrequency(locus_frequencies, i, p2)) # total_coverage

(***************************************************************************)
(* C8: when the allele-list file is missing, unreadable or has no          *)
(* non-blank line, the run reports the error and exits with status 1       *)
(* without invoking calculate_population_coverage; the function is only    *)
(* invoked with a non-empty list of trimmed, non-blank identifiers.        *)
(***************************************************************************)
Blank(line) == \A i \in DOMAIN line : line[i] \in Whitespace

NoUsableAlleles ==
    \/ ~txt_file.exists
    \/ ~txt_file.readable
    \/ \A i \in DOMAIN txt_file.lines : Blank(txt_file.lines[i])

Trimmed(s) == s # <<>> /\ s[1] \notin Whitespace /\ s[Len(s)] \notin Whitespace

C8_AlleleFileErrorsExitBeforeCall ==
    /\ (argc = 2 /\ NoUsableAlleles) =>
          /\ calls = 0
          /\ stdout = <<>>
          /\ pc = "exit" =>
                /\ exit_code = 1
                /\ Len(stderr) = 1
                /\ stderr[1].msg \in {"allele_file_not_found", "allele_file_read_error",
                                      "allele_file_empty"}
    /\ calls > 0 =>
          /\ alleles_to_analyze # <<>>
          /\ \A i \in Positions : Trimmed(alleles_to_analyze[i])

C8_Witness ==
    /\ pc = "exit"
    /\ argc = 2
    /\ txt_file.readable
    /\ Len(txt_file.lines) >= 2
    /\ NoUsableAlleles
    /\ exit_code = 1

(***************************************************************************)
(* C9: when several table rows have the same normalized identifier, the    *)
(* index holds the locus and frequency of the last of them in table        *)
(* order, and a query for that identifier uses that row alone.             *)
(***************************************************************************)
Rows == csv_file.rows

LastRowWith(key) ==
    Rows[CHOOSE i \in DOMAIN Rows :
            /\ RowKey(Rows[i]) = key
            /\ \A j \in DOMAIN Rows : RowKey(Rows[j]) = key => j <= i]

C9_LastWriteWins ==
    Calculated =>
        /\ DOMAIN allele_data = {RowKey(Rows[i]) : i \in DOMAIN Rows}
        /\ \A key \in DOMAIN allele_data :
              /\ allele_data[key].Locus = strip(LastRowWith(key).Locus)
              /\ allele_data[key].Frequency = LastRowWith(key).Frequency
        /\ \A i \in Matched :
              LoopStep(<<>>, alleles_to_analyze[i], allele_data)
                = << [locus |-> strip(LastRowWith(alleles_to_analyze[i]).Locus),
                      p |-> LastRowWith(alleles_to_analyze[i]).Frequency] >>

C9_Witness ==
    /\ Calculated
    /\ \E i, j \in DOMAIN Rows :
          /\ i < j
          /\ Rows[i].Allele # Rows[j].Allele
          /\ RowKey(Rows[i]) = RowKey(Rows[j])
          /\ Rows[i].Frequency # Rows[j].Frequency
          /\ strip(Rows[i].Locus) # strip(Rows[j].Locus)
          /\ \E k \in Matched : alleles_to_analyze[k] = RowKey(Rows[i])

(***************************************************************************)
(* C10: a table record is indexed under its identifier with only a         *)
(* leading 'HLA-' removed and surrounding whitespace trimmed (an 'HLA-'    *)
(* elsewhere in the identifier is kept); a queried identifier is only      *)
(* trimmed and matched exactly against that index.                         *)
(***************************************************************************)
WithoutPrefix(s) == IF StartsWith(s, HLA) THEN SubSeq(s, Len(HLA) + 1, Len(s)) ELSE s

PrefixNormalized(s) == strip(WithoutPrefix(strip(s)))

C10_OnlyLeadingPrefixRemoved ==
    Calculated =>
        /\ DOMAIN allele_data = {PrefixNormalized(Rows[i].Allele) : i \in DOMAIN Rows}
        /\ Matched = {i \in Positions :
                        alleles_to_analyze[i] \in
                            {PrefixNormalized(Rows[j].Allele) : j \in DOMAIN Rows}}

====
